---- MODULE Spec2Model ----
(***************************************************************************)
(* Playlist import (quodlibet/browsers/playlists/util.py: parse_m3u,       *)
(* parse_pls, __attempt_add, __create_playlist, _af_for, _dir_for) and the *)
(* file-manager dispatch (quodlibet/qltk/showfiles.py: show_files).        *)
(*                                                                         *)
(* Byte strings and paths are sequences of one-character strings, so that  *)
(* strip, startswith, lower, index, slicing, URI parsing and path joining  *)
(* are computed the way the code computes them.  The token "NUL" stands    *)
(* for a byte that bytes2fsn refuses to decode.                            *)
(***************************************************************************)
EXTENDS Naturals, Sequences, FiniteSets

VARIABLES
    format,      \* which parser the caller invoked: "m3u" | "pls"
    lines,       \* filelike: the byte lines the parser iterates over
    library,     \* the library argument (None or a Library)
    hasName,     \* whether filelike has a .name attribute (file-backed)
    pc,          \* position of the import call
    filenames,   \* the list built by __attempt_add, then `files`
    attempted,   \* the values handed to __attempt_add, in call order
    total,       \* the count WaitLoadWindow was created with
    songs,       \* the local list `songs` of __create_playlist
    ticks,       \* number of win.step() calls made
    stopTick,    \* the tick at which win.step() returned true (0: never)
    playlist,    \* the tracks of the returned playlist
    exc,         \* the exception that left the call ("" when none)
    lookups,     \* calls of library.get_filename: [entry, path]
    probes,      \* calls of formats.MusicFile: [entry, path]
    remotes,     \* calls of formats.remote.RemoteFile: [entry, path]
    platform,    \* show_files: "windows" | "osx" | "other"
    env,         \* show_files: what each backend meets on this machine
    sfpc,        \* show_files: "loop" | "done"
    invoked,     \* show_files: the backends called so far, in order
    outcomes,    \* show_files: how each call ended
    result       \* show_files: "" | "True" | "False" | "raised"

importVars == <<format, lines, library, hasName, pc, filenames, attempted,
                total, songs, ticks, stopTick, playlist, exc, lookups,
                probes, remotes>>
showVars == <<platform, env, sfpc, invoked, outcomes, result>>
vars == <<importVars, showVars>>

\* The longest input file (in lines) the parsers are run on.
MaxLines == 3

----------------------------------------------------------------------------
(* Byte-string primitives (Python bytes / str methods). *)

WS == {" ", "\n", "\t", "\r"}

RECURSIVE lstrip(_)
lstrip(s) == IF s # <<>> /\ Head(s) \in WS THEN lstrip(Tail(s)) ELSE s

RECURSIVE rstrip(_)
rstrip(s) ==
    IF s # <<>> /\ s[Len(s)] \in WS
    THEN rstrip(SubSeq(s, 1, Len(s) - 1))
    ELSE s

strip(s) == rstrip(lstrip(s))

startswith(s, p) == Len(s) >= Len(p) /\ SubSeq(s, 1, Len(p)) = p

endswith(s, p) ==
    Len(s) >= Len(p) /\ SubSeq(s, Len(s) - Len(p) + 1, Len(s)) = p

LowerChar(c) ==
    CASE c = "F" -> "f"
      [] c = "I" -> "i"
      [] c = "L" -> "l"
      [] c = "E" -> "e"
      [] c = "T" -> "t"
      [] OTHER -> c

lower(s) == [k \in 1..Len(s) |-> LowerChar(s[k])]

\* s.index(c), 1-based; 0 stands for the ValueError of a missing character.
index(s, c) ==
    IF \E k \in 1..Len(s) : s[k] = c
    THEN CHOOSE k \in 1..Len(s) : s[k] = c /\ \A j \in 1..(k - 1) : s[j] # c
    ELSE 0

\* s[k:] for a 1-based position k: everything after position k.
after(s, k) == SubSeq(s, k + 1, Len(s))

----------------------------------------------------------------------------
(* Tracks, the library and the file system. *)

None == [kind |-> "None", path |-> <<>>]

NoLibrary == [supplied |-> FALSE, contents |-> {}]

Cwd == <<"/", "w">>
PathMA == <<"/", "m", "/", "a">>
PathML == <<"/", "m", "/", "l">>

\* Files a probe can open as media.
Playable == {PathMA}

\* Symbolic links of the file system.
Symlinks == [p \in {PathML} |-> PathMA]

Libraries ==
    {NoLibrary,
     [supplied |-> TRUE, contents |-> {}],
     [supplied |-> TRUE, contents |-> {PathMA}]}

\* Python truth value of the `library` argument: None is false, and a
\* Library is a sized collection, false when it holds no item.
Truthy(lib) == lib.supplied /\ lib.contents # {}

get_filename(lib, fn) ==
    IF fn \in lib.contents THEN [kind |-> "library", path |-> fn] ELSE None

MusicFile(fn) ==
    IF fn \in Playable THEN [kind |-> "probed", path |-> fn] ELSE None

RemoteFile(uri) == [kind |-> "remote", path |-> uri]

\* os.path.join(a, p) on POSIX.
join(a, p) ==
    IF startswith(p, <<"/">>) THEN p
    ELSE IF a = <<>> \/ endswith(a, <<"/">>) THEN a \o p
    ELSE a \o <<"/">> \o p

abspath(p) == IF startswith(p, <<"/">>) THEN p ELSE join(Cwd, p)

normpath(p) ==
    IF Len(p) > 1 /\ endswith(p, <<"/">>) THEN SubSeq(p, 1, Len(p) - 1) ELSE p

\* os.path.realpath(p): absolute, normalised, symbolic links followed.
realpath(p) ==
    LET q == normpath(abspath(p))
    IN  IF q \in DOMAIN Symlinks THEN Symlinks[q] ELSE q

\* os.path.dirname of the playlist file's name; every file-backed playlist
\* of the model lives in /m.
PlaylistFileDir == <<"/", "m">>

dir_for(named) == IF named THEN PlaylistFileDir ELSE <<>>

----------------------------------------------------------------------------
(* URIs. *)

SchemeChars == {"f", "i", "l", "e", "h", "t", "p"}

\* urlparse(uri).scheme, <<>> when there is none.
scheme(uri) ==
    LET k == index(uri, ":")
    IN  IF k > 1 /\ \A j \in 1..(k - 1) : uri[j] \in SchemeChars
        THEN SubSeq(uri, 1, k - 1)
        ELSE <<>>

\* quodlibet.util.path.uri_is_valid: a scheme of more than one letter
\* followed by a location or a path.
uri_is_valid(uri) ==
    /\ Len(scheme(uri)) > 1
    /\ after(uri, Len(scheme(uri)) + 1) \notin {<<>>, <<"/", "/">>}

HexPairs == [p \in {<<"6", "C">>, <<"6", "1">>} |->
                IF p = <<"6", "C">> THEN "l" ELSE "a"]

RECURSIVE unquote(_)
unquote(s) ==
    IF s = <<>> THEN <<>>
    ELSE IF Head(s) = "%" /\ Len(s) >= 3 /\ SubSeq(s, 2, 3) \in DOMAIN HexPairs
    THEN <<HexPairs[SubSeq(s, 2, 3)]>> \o unquote(SubSeq(s, 4, Len(s)))
    ELSE <<Head(s)>> \o unquote(Tail(s))

FileScheme == <<"f", "i", "l", "e", ":", "/", "/">>

\* The part of a file URI after "file://netloc": its path, <<>> if none.
uri_path(uri) ==
    LET rest == after(uri, Len(FileScheme))
        k == index(rest, "/")
    IN  IF startswith(uri, FileScheme) /\ k > 0
        THEN SubSeq(rest, k, Len(rest))
        ELSE <<>>

\* senf.uri2fsn raises ValueError for anything but a file URI with a path.
uri2fsn_raises(uri) == uri_path(uri) = <<>>

uri2fsn(uri) == unquote(uri_path(uri))

----------------------------------------------------------------------------
(* The parsers. *)

\* senf.bytes2fsn(data, "utf-8") raises ValueError on a null byte.
bytes2fsn_raises(b) == \E k \in 1..Len(b) : b[k] = "NUL"

\* UTF-8 decoding: the byte pair C3 A9 is the one character U+00E9, ASCII
\* bytes are themselves.
RECURSIVE bytes2fsn(_)
bytes2fsn(b) ==
    IF b = <<>> THEN <<>>
    ELSE IF Len(b) >= 2 /\ SubSeq(b, 1, 2) = <<"xC3", "xA9">>
    THEN <<"U+E9">> \o bytes2fsn(SubSeq(b, 3, Len(b)))
    ELSE <<Head(b)>> \o bytes2fsn(Tail(b))

attempt_add(filename, fns) ==
    IF bytes2fsn_raises(filename) THEN fns ELSE Append(fns, bytes2fsn(filename))

ParseStart == [filenames |-> <<>>, attempted |-> <<>>, raised |-> FALSE]

RECURSIVE m3u_loop(_, _)
m3u_loop(ls, acc) ==
    IF ls = <<>> THEN acc
    ELSE LET line == strip(Head(ls))
         IN  IF startswith(line, <<"#">>)
             THEN m3u_loop(Tail(ls), acc)
             ELSE m3u_loop(Tail(ls),
                           [acc EXCEPT !.filenames = attempt_add(line, @),
                                       !.attempted = Append(@, line)])

RECURSIVE pls_loop(_, _)
pls_loop(ls, acc) ==
    IF ls = <<>> THEN acc
    ELSE LET line == strip(Head(ls))
             eq == index(line, "=")
             fn == strip(after(line, eq))
         IN  IF ~startswith(lower(line), <<"f", "i", "l", "e">>)
             THEN pls_loop(Tail(ls), acc)
             ELSE IF eq = 0
             THEN [acc EXCEPT !.raised = TRUE]
             ELSE pls_loop(Tail(ls),
                           [acc EXCEPT !.filenames = attempt_add(fn, @),
                                       !.attempted = Append(@, fn)])

----------------------------------------------------------------------------
(* Track resolution. *)

\* _af_for without the realpath call: the joined path is used as it is.
af_for_no_realpath(filename, lib, pl_dir) ==
    LET fn == join(pl_dir, filename)
        af == IF Truthy(lib) THEN get_filename(lib, fn) ELSE None
    IN  [song |-> IF af = None THEN MusicFile(fn) ELSE af,
         lookups |-> IF Truthy(lib) THEN <<fn>> ELSE <<>>,
         probes |-> IF af = None THEN <<fn>> ELSE <<>>,
         remotes |-> <<>>]

af_for(filename, lib, pl_dir) ==
    LET full_path == join(pl_dir, filename)
        fn == realpath(full_path)
        af == IF Truthy(lib) THEN get_filename(lib, fn) ELSE None
    IN  [song |-> IF af = None THEN MusicFile(fn) ELSE af,
         lookups |-> IF Truthy(lib) THEN <<fn>> ELSE <<>>,
         probes |-> IF af = None THEN <<fn>> ELSE <<>>,
         remotes |-> <<>>]

\* The loop body with the ValueError of uri2fsn handled by falling back to
\* the plain-filename branch.
resolve_entry_no_remote(filename, lib, source_dir) ==
    IF ~uri_is_valid(filename)
    THEN af_for(filename, lib, source_dir)
    ELSE IF uri2fsn_raises(filename)
    THEN af_for(filename, lib, source_dir)
    ELSE af_for(uri2fsn(filename), lib, source_dir)

\* The loop body with a local URI handed to _af_for unconverted.
resolve_entry_raw_uri(filename, lib, source_dir) ==
    IF ~uri_is_valid(filename)
    THEN af_for(filename, lib, source_dir)
    ELSE IF uri2fsn_raises(filename)
    THEN [song |-> RemoteFile(filename), lookups |-> <<>>, probes |-> <<>>,
          remotes |-> <<filename>>]
    ELSE af_for(filename, lib, source_dir)

\* One iteration body of the loop of __create_playlist, up to win.step().
resolve_entry(filename, lib, source_dir) ==
    IF ~uri_is_valid(filename)
    THEN af_for(filename, lib, source_dir)
    ELSE IF uri2fsn_raises(filename)
    THEN [song |-> RemoteFile(filename), lookups |-> <<>>, probes |-> <<>>,
          remotes |-> <<filename>>]
    ELSE af_for(uri2fsn(filename), lib, source_dir)

\* The songs extended into the playlist unfiltered.
filter_none_keeps_all(ss) == ss

\* list(filter(None, songs)): track objects are true, None is false.
filter_none(ss) == SelectSeq(ss, LAMBDA s : s # None)

\* An absent song sends the loop to its next entry without win.step().
after_append_skips_absent(song) == IF song = None THEN "loop" ELSE "step"

\* Where the loop goes once an entry's song has been appended.
after_append(song) == "step"

\* The answer of win.step() ignored.
step_never_breaks(stop) == FALSE

\* Whether the loop is left after win.step() returned `stop`.
step_breaks(stop) == stop

tagged(k, ps) == [j \in 1..Len(ps) |-> [entry |-> k, path |-> ps[j]]]

----------------------------------------------------------------------------
(* Inputs. *)

NL == <<"\n">>
Http == <<"h", "t", "t", "p", ":", "/", "/", "s">>
FileUri == FileScheme \o <<"/", "m", "/", "%", "6", "C">>

M3ULines ==
    {<<"#", "c">> \o NL,
     <<"a">> \o NL,
     <<" ", "xC3", "xA9", " ">> \o NL,
     NL,
     Http \o NL,
     FileUri \o NL,
     PathML \o NL,
     <<"a", "NUL">> \o NL}

PLSLines ==
    {<<"F", "i", "l", "e", "1", "=", "a">> \o NL,
     <<"F", "I", "L", "E", "2", " ", "=", " ", "xC3", "xA9", " ">> \o NL,
     <<"f", "i", "l", "e", "3", "=">> \o Http \o <<"=", "1">> \o NL,
     <<"F", "i", "l", "e", "4">> \o NL,
     <<"T", "i", "t", "l", "e", "1", "=", "f", "i", "l", "e">> \o NL,
     <<"f", "i", "l", "e", "5", "=">> \o FileUri \o NL,
     <<"F", "i", "l", "e", "6", "=">> \o PathML \o NL,
     <<" ", "f", "i", "l", "e", "7", "=", "a", "NUL">> \o NL}

LinesOf(f) == IF f = "m3u" THEN M3ULines ELSE PLSLines

BoundedSeq(S, n) == UNION {[1..k -> S] : k \in 0..n}

----------------------------------------------------------------------------
(* show_files. *)

Implementations(p) ==
    IF p = "windows" THEN <<"win32">>
    ELSE IF p = "osx" THEN <<"finder">>
    ELSE <<"fdo", "thunar", "xdg_open", "gnome_open">>

\* How a backend call ends: "ok" (it returned), "BrowseError", or
\* "OtherError" (an exception that is not a BrowseError and that the
\* backend does not catch, such as the ValueError of fsn2uri).
\* The machine is described by env:
\*   dbus             whether the dbus module was imported
\*   fdo, thunar      how the session-bus calls end:
\*                    "ok" | "DBusException" | "OtherError"
\*   xdg, gnome, explorer, open
\*                    subprocess.call: "zero" | "nonzero" | "EnvironmentError"
\*   select           open_folder_and_select_items: "ok" | "WindowsError"
\*   entries          whether show_files was given entries
dbus_backend(have_dbus, call) ==
    IF ~have_dbus THEN "BrowseError"
    ELSE IF call = "DBusException" THEN "BrowseError"
    ELSE call

subprocess_backend(status) == IF status = "zero" THEN "ok" ELSE "BrowseError"

show_files_fdo(e) == dbus_backend(e.dbus, e.fdo)

show_files_thunar(e) == dbus_backend(e.dbus, e.thunar)

show_files_xdg_open(e) == subprocess_backend(e.xdg)

show_files_gnome_open(e) == subprocess_backend(e.gnome)

show_files_win32(p, e) ==
    IF p # "windows" THEN "BrowseError"
    ELSE IF ~e.entries THEN subprocess_backend(e.explorer)
    ELSE IF e.select = "WindowsError" THEN "BrowseError"
    ELSE "ok"

show_files_finder(p, e) ==
    IF p # "osx" THEN "BrowseError" ELSE subprocess_backend(e.open)

run_impl(impl, p, e) ==
    CASE impl = "fdo" -> show_files_fdo(e)
      [] impl = "thunar" -> show_files_thunar(e)
      [] impl = "xdg_open" -> show_files_xdg_open(e)
      [] impl = "gnome_open" -> show_files_gnome_open(e)
      [] impl = "win32" -> show_files_win32(p, e)
      [] impl = "finder" -> show_files_finder(p, e)

\* The loop given up at the first BrowseError.
on_browse_error_return == "return"

\* What the loop of show_files does after a call that raised BrowseError.
on_browse_error == "continue"

DBusCalls == {"ok", "DBusException", "OtherError"}
Statuses == {"zero", "nonzero", "EnvironmentError"}

\* The machines of a platform; what a platform never calls is held fixed.
Envs(p) ==
    [dbus : IF p = "other" THEN BOOLEAN ELSE {FALSE},
     fdo : IF p = "other" THEN DBusCalls ELSE {"ok"},
     thunar : IF p = "other" THEN DBusCalls ELSE {"ok"},
     xdg : IF p = "other" THEN Statuses ELSE {"zero"},
     gnome : IF p = "other" THEN Statuses ELSE {"zero"},
     explorer : IF p = "windows" THEN Statuses ELSE {"zero"},
     select : IF p = "windows" THEN {"ok", "WindowsError"} ELSE {"ok"},
     open : IF p = "osx" THEN Statuses ELSE {"zero"},
     entries : IF p = "windows" THEN BOOLEAN ELSE {FALSE}]

----------------------------------------------------------------------------
(* The import as a state machine. *)

ImportIdle ==
    /\ format = "m3u"
    /\ lines = <<>>
    /\ library = NoLibrary
    /\ hasName = TRUE
    /\ pc = "idle"
    /\ filenames = <<>>
    /\ attempted = <<>>
    /\ total = 0
    /\ songs = <<>>
    /\ ticks = 0
    /\ stopTick = 0
    /\ playlist = <<>>
    /\ exc = ""
    /\ lookups = <<>>
    /\ probes = <<>>
    /\ remotes = <<>>

ShowIdle ==
    /\ platform = "other"
    /\ env = [dbus |-> FALSE, fdo |-> "ok", thunar |-> "ok", xdg |-> "zero",
              gnome |-> "zero", explorer |-> "zero", select |-> "ok",
              open |-> "zero", entries |-> FALSE]
    /\ sfpc = "idle"
    /\ invoked = <<>>
    /\ outcomes = <<>>
    /\ result = ""

Init ==
    /\ format \in {"m3u", "pls"}
    /\ lines \in BoundedSeq(LinesOf(format), MaxLines)
    /\ library \in Libraries
    /\ hasName \in BOOLEAN
    /\ pc = "parse"
    /\ filenames = <<>>
    /\ attempted = <<>>
    /\ total = 0
    /\ songs = <<>>
    /\ ticks = 0
    /\ stopTick = 0
    /\ playlist = <<>>
    /\ exc = ""
    /\ lookups = <<>>
    /\ probes = <<>>
    /\ remotes = <<>>
    /\ ShowIdle

\* parse_m3u up to the loop of __create_playlist.
ParseM3U ==
    /\ pc = "parse"
    /\ format = "m3u"
    /\ LET r == m3u_loop(lines, ParseStart)
       IN  /\ filenames' = r.filenames
           /\ attempted' = r.attempted
           /\ total' = Len(r.filenames)
    /\ pc' = "loop"
    /\ UNCHANGED <<format, lines, library, hasName, songs, ticks, stopTick,
                   playlist, exc, lookups, probes, remotes, showVars>>

\* parse_pls up to the loop of __create_playlist, or to the ValueError of
\* line.index(b"=").
ParsePLS ==
    /\ pc = "parse"
    /\ format = "pls"
    /\ LET r == pls_loop(lines, ParseStart)
       IN  /\ filenames' = r.filenames
           /\ attempted' = r.attempted
           /\ IF r.raised
              THEN pc' = "raised" /\ exc' = "ValueError" /\ total' = total
              ELSE pc' = "loop" /\ exc' = exc /\ total' = Len(r.filenames)
    /\ UNCHANGED <<format, lines, library, hasName, songs, ticks, stopTick,
                   playlist, lookups, probes, remotes, showVars>>

\* One entry of `files`: classify, resolve, append to songs.
Resolve ==
    /\ pc = "loop"
    /\ Len(songs) < Len(filenames)
    /\ LET k == Len(songs) + 1
           r == resolve_entry(filenames[k], library, dir_for(hasName))
       IN  /\ songs' = Append(songs, r.song)
           /\ lookups' = lookups \o tagged(k, r.lookups)
           /\ probes' = probes \o tagged(k, r.probes)
           /\ remotes' = remotes \o tagged(k, r.remotes)
           /\ pc' = after_append(r.song)
    /\ UNCHANGED <<format, lines, library, hasName, filenames, attempted,
                   total, ticks, stopTick, playlist, exc, showVars>>

\* win.step(): the sink is ticked and answers whether to stop.
Step ==
    /\ pc = "step"
    /\ ticks' = ticks + 1
    /\ \E stop \in BOOLEAN :
          /\ stopTick' = IF stop THEN ticks + 1 ELSE stopTick
          /\ pc' = IF step_breaks(stop) THEN "finish" ELSE "loop"
    /\ UNCHANGED <<format, lines, library, hasName, filenames, attempted,
                   total, songs, playlist, exc, lookups, probes, remotes,
                   showVars>>

\* The loop is over: win.destroy(), playlist.extend(...), return.
Finish ==
    /\ \/ pc = "finish"
       \/ pc = "loop" /\ Len(songs) = Len(filenames)
    /\ playlist' = filter_none(songs)
    /\ pc' = "done"
    /\ UNCHANGED <<format, lines, library, hasName, filenames, attempted,
                   total, songs, ticks, stopTick, exc, lookups, probes,
                   remotes, showVars>>

Next == ParseM3U \/ ParsePLS \/ Resolve \/ Step \/ Finish

Spec == Init /\ [][Next]_vars

----------------------------------------------------------------------------
(* show_files as a state machine. *)

InitShow ==
    /\ ImportIdle
    /\ platform \in {"windows", "osx", "other"}
    /\ env \in Envs(platform)
    /\ sfpc = "loop"
    /\ invoked = <<>>
    /\ outcomes = <<>>
    /\ result = ""

\* One iteration of `for impl in implementations`.
CallImpl ==
    /\ sfpc = "loop"
    /\ Len(invoked) < Len(Implementations(platform))
    /\ LET impl == Implementations(platform)[Len(invoked) + 1]
           out == run_impl(impl, platform, env)
       IN  /\ invoked' = Append(invoked, impl)
           /\ outcomes' = Append(outcomes, out)
           /\ IF out = "ok"
              THEN sfpc' = "done" /\ result' = "True"
              ELSE IF out = "BrowseError"
              THEN IF on_browse_error = "continue"
                   THEN sfpc' = "loop" /\ result' = result
                   ELSE sfpc' = "done" /\ result' = "False"
              ELSE sfpc' = "done" /\ result' = "raised"
    /\ UNCHANGED <<platform, env, importVars>>

\* The list is exhausted: return False.
ReturnFalse ==
    /\ sfpc = "loop"
    /\ Len(invoked) = Len(Implementations(platform))
    /\ sfpc' = "done"
    /\ result' = "False"
    /\ UNCHANGED <<platform, env, invoked, outcomes, importVars>>

NextShow == CallImpl \/ ReturnFalse

SpecShow == InitShow /\ [][NextShow]_vars

----------------------------------------------------------------------------
(* Vocabulary of the properties. *)

\* The tracks of ss that are not absent, in order.
RECURSIVE NonAbsent(_)
NonAbsent(ss) ==
    IF ss = <<>> THEN <<>>
    ELSE IF Head(ss) = None THEN NonAbsent(Tail(ss))
    ELSE <<Head(ss)>> \o NonAbsent(Tail(ss))

\* The paths of the logged calls made for entry k, in call order.
CallsFor(log, k) ==
    LET mine == SelectSeq(log, LAMBDA c : c.entry = k)
    IN  [j \in 1..Len(mine) |-> mine[j].path]

Processed == 1..Len(songs)

\* An entry that is syntactically a URI and has no local path.
IsRemoteEntry(f) == uri_is_valid(f) /\ uri2fsn_raises(f)

\* An entry that is a URI with a local path.
IsLocalUri(f) == uri_is_valid(f) /\ ~uri2fsn_raises(f)

\* The local path of an entry that is not remote.
LocalPathOf(f) == IF uri_is_valid(f) THEN uri2fsn(f) ELSE f

\* realpath of the source directory joined with the entry.
Canonical(f) == realpath(join(dir_for(hasName), LocalPathOf(f)))

\* The position in the playlist of the track of processed entry k.
PositionOf(k) == Cardinality({j \in 1..k : songs[j] # None})

\* The stripped lines of an M3U file that are neither empty nor comments.
M3UCandidates ==
    SelectSeq([k \in 1..Len(lines) |-> strip(lines[k])],
              LAMBDA s : s # <<>> /\ Head(s) # "#")

\* The values of the lines of a PLS file whose stripped form starts with
\* "file" in any letter case: the stripped text after the first "=".
PLSCandidates ==
    LET stripped == [k \in 1..Len(lines) |-> strip(lines[k])]
        files == SelectSeq(stripped,
                     LAMBDA s : startswith(lower(s), <<"f", "i", "l", "e">>))
    IN  [k \in 1..Len(files) |-> strip(after(files[k], index(files[k], "=")))]

Decodable(ss) == SelectSeq(ss, LAMBDA s : ~bytes2fsn_raises(s))

----------------------------------------------------------------------------
(* Properties of the import. *)

\* C1: parse_m3u and parse_pls never leave by an exception, whatever the
\* lines of the file are.
C1_NeverRaises == pc # "raised" /\ exc = ""

\* Every exception of the import is the ValueError of a PLS line that
\* starts with "file" and holds no "=".
RaisesOnlyOnFileLineWithoutEquals ==
    pc = "raised" <=>
        /\ format = "pls"
        /\ pc # "parse"
        /\ \E k \in 1..Len(lines) :
              /\ startswith(lower(strip(lines[k])), <<"f", "i", "l", "e">>)
              /\ index(strip(lines[k]), "=") = 0

\* C2: when the import is not cancelled, the playlist holds exactly the
\* non-absent results of resolving the decodable entries, in file order,
\* and no absent placeholder.
C2_TracksAreResolvedEntriesInOrder ==
    (pc = "done" /\ stopTick = 0) =>
        /\ Len(filenames) = Len(Decodable(attempted))
        /\ Len(songs) = Len(filenames)
        /\ \A k \in Processed :
              songs[k] =
                resolve_entry(filenames[k], library, dir_for(hasName)).song
        /\ playlist = NonAbsent(songs)
        /\ \A j \in 1..Len(playlist) : playlist[j] # None

C2_Witness ==
    /\ pc = "done"
    /\ stopTick = 0
    /\ Len(songs) = 3
    /\ songs[2] = None
    /\ Len(playlist) = 2
    /\ playlist[1].kind = "probed"
    /\ playlist[2].kind = "remote"

\* C3: when the sink signals stop at its N-th tick, assembly ends without
\* raising after exactly N entries, and the playlist holds the non-absent
\* tracks of the first N entries in order (at most N tracks).
C3_CancelKeepsFirstN ==
    (pc \in {"finish", "done"} /\ stopTick > 0) =>
        /\ exc = ""
        /\ stopTick <= Len(filenames)
        /\ Len(songs) = stopTick
        /\ \A c \in 1..Len(lookups) : lookups[c].entry <= stopTick
        /\ \A c \in 1..Len(probes) : probes[c].entry <= stopTick
        /\ \A c \in 1..Len(remotes) : remotes[c].entry <= stopTick
        /\ pc = "done" =>
              /\ Len(playlist) <= stopTick
              /\ playlist = NonAbsent(
                    [k \in 1..stopTick |->
                        resolve_entry(filenames[k], library,
                                      dir_for(hasName)).song])

C3_Witness ==
    /\ pc = "done"
    /\ stopTick = 2
    /\ Len(filenames) = 3
    /\ Len(playlist) = 1

\* C4: in parse_m3u the entries handed on are exactly the stripped lines
\* that are non-empty and not comments, and the progress total is the
\* number of them that decode.
C4_M3UCandidatesAreNonEmptyNonComment ==
    (format = "m3u" /\ pc # "parse") =>
        /\ attempted = M3UCandidates
        /\ total = Len(Decodable(M3UCandidates))

\* What parse_m3u does hand on: every stripped line that is not a comment,
\* the empty ones included.
M3UHandsOnEveryNonComment ==
    (format = "m3u" /\ pc # "parse") =>
        /\ attempted =
              SelectSeq([k \in 1..Len(lines) |-> strip(lines[k])],
                        LAMBDA s : ~startswith(s, <<"#">>))
        /\ total = Len(Decodable(attempted))

\* C5: in parse_pls a line yields a candidate exactly when its stripped
\* form starts with "file" in any letter case, and the candidate is the
\* stripped text after the line's first "=".
C5_PLSCandidatesAreFileLines ==
    (format = "pls" /\ pc # "parse") => attempted = PLSCandidates

\* The same, for the calls of parse_pls that do not raise.
PLSCandidatesUnlessRaised ==
    (format = "pls" /\ pc \notin {"parse", "raised"}) =>
        attempted = PLSCandidates

\* C6: a processed entry that is a URI without a local path gets a newly
\* constructed remote track, which is in the playlist at its file
\* position; no library lookup and no probe is made for it.
C6_RemoteEntriesBecomeRemoteTracks ==
    \A k \in Processed :
        IsRemoteEntry(filenames[k]) =>
            /\ songs[k] = [kind |-> "remote", path |-> filenames[k]]
            /\ CallsFor(remotes, k) = <<filenames[k]>>
            /\ CallsFor(lookups, k) = <<>>
            /\ CallsFor(probes, k) = <<>>
            /\ pc = "done" => playlist[PositionOf(k)] = songs[k]

C6_Witness ==
    /\ pc = "done"
    /\ library.contents # {}
    /\ \E k \in Processed :
          /\ k > 1
          /\ IsRemoteEntry(filenames[k])
          /\ songs[1] = None
          /\ PositionOf(k) < k

\* C7 as stated: for a processed local entry, a supplied library is looked
\* up exactly once (stated here for the entries that name something: an
\* entry that is not the empty string).
C7_SuppliedLibraryLookedUpOnce ==
    \A k \in Processed :
        (/\ filenames[k] # <<>>
         /\ ~IsRemoteEntry(filenames[k])
         /\ library.supplied) =>
            Len(CallsFor(lookups, k)) = 1

\* C7 as amended: for a processed local entry, a supplied library that
\* holds at least one track is looked up exactly once, with the canonical
\* path; on a hit that shared track is placed and nothing is probed,
\* otherwise the track is probed from the canonical path.  No library, or
\* a supplied library holding no track, is never looked up.  For a remote
\* entry the library is never looked up.
C7_LibraryLookup ==
    \A k \in Processed :
        LET f == filenames[k]
            hit == library.supplied /\ Canonical(f) \in library.contents
        IN  /\ IsRemoteEntry(f) => CallsFor(lookups, k) = <<>>
            /\ ~IsRemoteEntry(f) =>
                  /\ CallsFor(remotes, k) = <<>>
                  /\ CallsFor(lookups, k) =
                        IF library.supplied /\ library.contents # {}
                        THEN <<Canonical(f)>>
                        ELSE <<>>
                  /\ hit =>
                        /\ songs[k] =
                              [kind |-> "library", path |-> Canonical(f)]
                        /\ CallsFor(probes, k) = <<>>
                  /\ ~hit =>
                        /\ CallsFor(probes, k) = <<Canonical(f)>>
                        /\ songs[k].kind \in {"probed", "None"}
                        /\ songs[k].kind = "probed" =>
                              songs[k].path = Canonical(f)

C7_Witness ==
    /\ library.contents # {}
    /\ \E j, k \in Processed :
          /\ filenames[k] = PathML
          /\ songs[k] = [kind |-> "library", path |-> PathMA]
          /\ CallsFor(lookups, k) = <<PathMA>>
          /\ ~IsRemoteEntry(filenames[j])
          /\ songs[j] = None
          /\ Len(CallsFor(lookups, j)) = 1
          /\ Len(CallsFor(probes, j)) = 1

\* C8: a file URI and the plain path it stands for resolve alike: the same
\* library lookup, the same probe, the same track.
C8_FileUriLikePlainPath ==
    \A j, k \in Processed :
        (/\ IsLocalUri(filenames[j])
         /\ ~uri_is_valid(filenames[k])
         /\ filenames[k] = uri2fsn(filenames[j])) =>
            /\ songs[j] = songs[k]
            /\ CallsFor(lookups, j) = CallsFor(lookups, k)
            /\ CallsFor(probes, j) = CallsFor(probes, k)
            /\ CallsFor(remotes, j) = <<>>

C8_Witness ==
    \E j, k \in Processed :
        /\ IsLocalUri(filenames[j])
        /\ filenames[j] # filenames[k]
        /\ filenames[k] = uri2fsn(filenames[j])
        /\ songs[j] # None
        /\ songs[j] = songs[k]

\* C9: the sink is ticked exactly once after each processed entry,
\* whatever the entry resolved to: between entries the ticks equal the
\* entries processed, an appended entry is one tick ahead until its tick,
\* and at the end the ticks are all M entries, or N when stop came at the
\* N-th tick.
C9_OneTickPerEntry ==
    /\ pc \in {"loop", "finish", "done"} => ticks = Len(songs)
    /\ pc = "step" => Len(songs) = ticks + 1
    /\ pc = "done" =>
          ticks = IF stopTick = 0 THEN Len(filenames) ELSE stopTick

C9_Witness ==
    /\ pc = "done"
    /\ ticks = 3
    /\ \E a, b, c \in Processed :
          /\ songs[a] = None
          /\ songs[b].kind = "remote"
          /\ songs[c].kind \in {"probed", "library"}

----------------------------------------------------------------------------
(* Properties of show_files. *)

IsPrefix(s, t) == Len(s) <= Len(t) /\ s = SubSeq(t, 1, Len(s))

\* C10: the backends are called in their listed order, each at most once,
\* and a backend is called only after every earlier one raised
\* BrowseError; True is returned exactly when the last call made returned
\* normally, and False exactly when every listed backend was called and
\* raised BrowseError.
C10_FirstSuccessWins ==
    /\ IsPrefix(invoked, Implementations(platform))
    /\ Len(outcomes) = Len(invoked)
    /\ \A k \in 1..(Len(outcomes) - 1) : outcomes[k] = "BrowseError"
    /\ result = "True" <=>
          (outcomes # <<>> /\ outcomes[Len(outcomes)] = "ok")
    /\ result = "True" => sfpc = "done"
    /\ sfpc = "done" =>
          (result = "False" <=>
              /\ invoked = Implementations(platform)
              /\ \A k \in 1..Len(outcomes) : outcomes[k] = "BrowseError")
    /\ platform = "other" =>
          Implementations(platform) =
              <<"fdo", "thunar", "xdg_open", "gnome_open">>

C10_Witness ==
    /\ platform = "other"
    /\ result = "True"
    /\ invoked = <<"fdo", "thunar", "xdg_open">>

====
